---- MODULE Spec2Model ----
(***************************************************************************)
(* Model of expense_manager_app.py, a Streamlit page script over four      *)
(* Postgres tables (income, expense, pending_income, budget) read through  *)
(* the cached load_table.  Every widget callback is one run of the script; *)
(* the 'Move to Income' loop is modelled write by write, because each      *)
(* run() is a transaction of its own and another session can act between   *)
(* two of them.                                                            *)
(*                                                                         *)
(* Rows carry the columns the properties read: id, date, amount_lkr,       *)
(* source / category, cleared.  The notes column is copied around by the   *)
(* code and never inspected, so it is left out.  Texts are sequences of    *)
(* tokens, " " being white space, so that strip() has something to do.     *)
(* Amounts are whole rupees.                                               *)
(***************************************************************************)
EXTENDS Integers, Sequences, FiniteSets, TLC

\* ------------------------------------------------------------- bounds
MaxPending == 2
MaxMoved   == 3
MaxIncome  == 2
MaxExpense == 2
MaxLimit   == 2

\* ------------------------------------------------ program constants
Noon        == 720
Today       == 2
ThisYear    == 2026
TailDivisor == 20

Sessions == {"s1", "s2"}
Tables   == {"income", "expense", "pending_income", "budget"}
Faults   == {"none", "insert", "update"}
Days     == {Today - 1, Today}

VARIABLES income, expense, pending_income, budget, cache,
          pc, p_df, chosen, pos, fault, inserted, updated, failed, reported,
          moved, last_save, qa_parsed, qa_result, dash

store   == <<income, expense, pending_income, budget>>
session == <<pc, p_df, chosen, pos, fault, inserted, updated, failed, reported>>
quick   == <<qa_parsed, qa_result>>
ghost   == <<moved, last_save>>
vars    == <<income, expense, pending_income, budget, cache,
             pc, p_df, chosen, pos, fault, inserted, updated, failed, reported,
             moved, last_save, qa_parsed, qa_result, dash>>

\* ------------------------------------------------------------ helpers
Range(q) == {q[i] : i \in DOMAIN q}

RECURSIVE SumSeq(_)
SumSeq(q) == IF q = <<>> THEN 0 ELSE Head(q) + SumSeq(Tail(q))

RECURSIVE SumFun(_, _)
SumFun(f, S) ==
  IF S = {} THEN 0
  ELSE LET k == CHOOSE x \in S : TRUE IN f[k] + SumFun(f, S \ {k})

\* all sequences without repetition over S, the empty one excluded
Selections(S) ==
  {q \in UNION {[1..n -> S] : n \in 1..Cardinality(S)} :
     \A i, j \in DOMAIN q : i # j => q[i] # q[j]}

\* -------------------------------------------------------------- cache
\* @st.cache_data(ttl=30) load_table: one entry per table name, shared by
\* every session of the server process.
Miss    == [hit |-> FALSE, df |-> <<>>]
NoCache == [t \in Tables |-> Miss]

\* load_table(t) called with cache c while the table holds rows
Load(c, t, rows) == IF c[t].hit THEN c[t].df ELSE rows

\* the cache after that call
Fill(c, t, rows) == [c EXCEPT ![t] = [hit |-> TRUE, df |-> Load(c, t, rows)]]

\* st.cache_data.clear()
CacheClear == NoCache

\* the ttl of an entry runs out
CacheExpire(t) ==
  /\ cache[t].hit
  /\ cache' = [cache EXCEPT ![t] = Miss]
  /\ UNCHANGED <<store, session, ghost, quick, dash>>

\* the page shown changes with every run of the script: what the Dashboard
\* computed is gone as soon as another callback runs
NoDash == [on |-> FALSE, tot_inc |-> 0, tot_exp |-> 0, bal |-> 0,
           has_ledger |-> FALSE, balance |-> <<>>,
           has_donut |-> FALSE, donut |-> <<>>]

\* ------------------------------------------------------------ pending
\* "Add pending" form in session s, then the rest of the Pending page (line
\* 271); what the session's previous run showed is gone
AddPending(s, p_amt, p_src) ==
  /\ pc[s] \in {"idle", "done"}
  /\ Len(pending_income) < MaxPending
  /\ IF p_amt > 0
     THEN /\ pending_income' = Append(pending_income,
                 [id |-> Len(pending_income) + 1, amount_lkr |-> p_amt,
                  source |-> p_src, cleared |-> FALSE])
          /\ cache' = Fill(CacheClear, "pending_income", pending_income')
     ELSE /\ UNCHANGED pending_income
          /\ cache' = Fill(cache, "pending_income", pending_income)
  /\ pc' = [pc EXCEPT ![s] = "idle"]
  /\ p_df' = [p_df EXCEPT ![s] = <<>>]
  /\ chosen' = [chosen EXCEPT ![s] = <<>>]
  /\ pos' = [pos EXCEPT ![s] = 1]
  /\ fault' = [fault EXCEPT ![s] = <<>>]
  /\ inserted' = [inserted EXCEPT ![s] = {}]
  /\ updated' = [updated EXCEPT ![s] = {}]
  /\ failed' = [failed EXCEPT ![s] = {}]
  /\ reported' = [reported EXCEPT ![s] = 0]
  /\ dash' = NoDash
  /\ UNCHANGED <<income, expense, budget, ghost, quick>>

\* unclrd = p_df.loc[~p_df["cleared"], "id"]
Unclrd(df) == {df[i].id : i \in {j \in DOMAIN df : ~df[j].cleared}}

\* p_df.loc[p_df["id"] == pid].iloc[0]
RowById(df, pid) == df[CHOOSE i \in DOMAIN df : df[i].id = pid]

\* update pending_income set cleared=true where id=:i
SetCleared(tbl, pid) ==
  [i \in DOMAIN tbl |->
     IF tbl[i].id = pid THEN [tbl[i] EXCEPT !.cleared = TRUE] ELSE tbl[i]]

\* rows the batches in flight may still insert
InFlight ==
  LET left(s) == IF pc[s] \in {"insert", "update"}
                 THEN Len(chosen[s]) - pos[s] + 1 ELSE 0
      RECURSIVE Sum(_)
      Sum(S) == IF S = {} THEN 0
                ELSE LET s == CHOOSE x \in S : TRUE IN left(s) + Sum(S \ {s})
  IN Sum(Sessions)

\* the run of the script that the click on "Move to Income" starts: the
\* table is read through the cache, the selection sel is taken from it.
\* flt is the store's behaviour in this batch: which write of which id fails.
MoveStart(s, sel, flt) ==
  /\ pc[s] \in {"idle", "done"}
  /\ LET df == Load(cache, "pending_income", pending_income) IN
       /\ sel \in Selections(Unclrd(df))
       /\ flt \in [Range(sel) -> Faults]
       /\ Len(income) + InFlight + Len(sel) <= MaxMoved
       /\ p_df' = [p_df EXCEPT ![s] = df]
  /\ cache' = Fill(cache, "pending_income", pending_income)
  /\ chosen' = [chosen EXCEPT ![s] = sel]
  /\ fault' = [fault EXCEPT ![s] = flt]
  /\ pos' = [pos EXCEPT ![s] = 1]
  /\ inserted' = [inserted EXCEPT ![s] = {}]
  /\ updated' = [updated EXCEPT ![s] = {}]
  /\ failed' = [failed EXCEPT ![s] = {}]
  /\ reported' = [reported EXCEPT ![s] = 0]
  /\ pc' = [pc EXCEPT ![s] = "insert"]
  /\ dash' = NoDash
  /\ UNCHANGED <<store, ghost, quick>>

\* "continue": the position of the loop after the id at position p failed
BreakPos(p, n) == n + 1
ContinuePos(p, n) == p + 1

\* where the loop stands once it is at position p of n
LoopPc(p, n) == IF p > n THEN "report" ELSE "insert"

\* run("insert into income ... values (now(), :a, :s, :n)")
MoveInsert(s, now) ==
  /\ pc[s] = "insert"
  /\ LET pid == chosen[s][pos[s]]
         row == RowById(p_df[s], pid)
         n   == Len(chosen[s])
     IN IF fault[s][pid] = "insert"
        THEN /\ failed' = [failed EXCEPT ![s] = @ \cup {pid}]
             /\ pos' = [pos EXCEPT ![s] = ContinuePos(@, n)]
             /\ pc' = [pc EXCEPT ![s] = LoopPc(pos'[s], n)]
             /\ UNCHANGED <<income, moved, inserted>>
        ELSE /\ income' = Append(income,
                    [id |-> Len(income) + 1, date |-> now,
                     amount_lkr |-> row.amount_lkr, source |-> row.source])
             /\ moved' = [moved EXCEPT ![pid] = @ + 1]
             /\ inserted' = [inserted EXCEPT ![s] = @ \cup {pid}]
             /\ pc' = [pc EXCEPT ![s] = "update"]
             /\ UNCHANGED <<failed, pos>>
  /\ UNCHANGED <<expense, pending_income, budget, cache, p_df, chosen, fault,
                 updated, reported, last_save, quick, dash>>

\* run("update pending_income set cleared=true where id=:i")
MoveUpdate(s) ==
  /\ pc[s] = "update"
  /\ LET pid == chosen[s][pos[s]]
         n   == Len(chosen[s])
     IN /\ IF fault[s][pid] = "update"
           THEN /\ failed' = [failed EXCEPT ![s] = @ \cup {pid}]
                /\ pos' = [pos EXCEPT ![s] = ContinuePos(@, n)]
                /\ UNCHANGED <<pending_income, updated>>
           ELSE /\ pending_income' = SetCleared(pending_income, pid)
                /\ updated' = [updated EXCEPT ![s] = @ \cup {pid}]
                /\ pos' = [pos EXCEPT ![s] = @ + 1]
                /\ UNCHANGED failed
        /\ pc' = [pc EXCEPT ![s] = LoopPc(pos'[s], n)]
  /\ UNCHANGED <<income, expense, budget, cache, p_df, chosen, fault,
                 inserted, reported, ghost, quick, dash>>

\* the number in st.success(f"{len(chosen)} item(s) cleared into Income.")
SuccessCount(s) == Len(chosen[s])

MoveReport(s) ==
  /\ pc[s] = "report"
  /\ reported' = [reported EXCEPT ![s] = SuccessCount(s)]
  /\ pc' = [pc EXCEPT ![s] = "done"]
  /\ UNCHANGED <<store, cache, p_df, chosen, pos, fault, inserted, updated,
                 failed, ghost, quick, dash>>

\* ------------------------------------------------------ text helpers
\* str.strip() on a text of tokens
RECURSIVE LStrip(_)
LStrip(t) == IF t # <<>> /\ Head(t) = " " THEN LStrip(Tail(t)) ELSE t

RECURSIVE RStrip(_)
RStrip(t) ==
  IF t # <<>> /\ t[Len(t)] = " " THEN RStrip(SubSeq(t, 1, Len(t) - 1)) ELSE t

Strip(t) == RStrip(LStrip(t))

\* ------------------------------------------------- Add Income / Add Expense
AddIncome(ts, amount, src) ==
  /\ Len(income) < MaxIncome
  /\ IF amount > 0
     THEN /\ income' = Append(income,
                 [id |-> Len(income) + 1, date |-> ts,
                  amount_lkr |-> amount, source |-> src])
          /\ cache' = CacheClear
     ELSE UNCHANGED <<income, cache>>
  /\ dash' = NoDash
  /\ UNCHANGED <<expense, pending_income, budget, session, ghost, quick>>

AddExpense(ts, amt, cat) ==
  /\ Len(expense) < MaxExpense
  /\ IF amt > 0 /\ Strip(cat) # <<>>
     THEN /\ expense' = Append(expense,
                 [id |-> Len(expense) + 1, date |-> ts,
                  amount_lkr |-> amt, category |-> Strip(cat)])
          /\ cache' = CacheClear
     ELSE UNCHANGED <<expense, cache>>
  /\ dash' = NoDash
  /\ UNCHANGED <<income, pending_income, budget, session, ghost, quick>>

\* ------------------------------------------------------------- budgets
\* insert into budget ... values (:c,:l): the statement without its
\* "on conflict" clause
PlainInsert(tbl, c, l) == Append(tbl, [category |-> c, limit_lkr |-> l])

\* insert into budget ... on conflict (category) do update set limit_lkr=:l
Upsert(tbl, c, l) ==
  IF \E i \in DOMAIN tbl : tbl[i].category = c
  THEN [i \in DOMAIN tbl |->
          IF tbl[i].category = c THEN [tbl[i] EXCEPT !.limit_lkr = l]
          ELSE tbl[i]]
  ELSE Append(tbl, [category |-> c, limit_lkr |-> l])

\* the Budgets page run by a click on "Save / Update Budget": the table is
\* loaded for display, then the row is written; the cache is left as it is
BudgetSave(b_cat, b_lim) ==
  /\ cache' = Fill(cache, "budget", budget)
  /\ IF Strip(b_cat) # <<>>
     THEN /\ budget' = Upsert(budget, Strip(b_cat), b_lim)
          /\ last_save' = [k \in DOMAIN last_save \cup {Strip(b_cat)} |->
                             IF k = Strip(b_cat) THEN b_lim ELSE last_save[k]]
     ELSE UNCHANGED <<budget, last_save>>
  /\ dash' = NoDash
  /\ UNCHANGED <<income, expense, pending_income, session, moved, quick>>

\* ----------------------------------------------------------- dashboard
\* timestamps are <<day, minute of the day>>
TsLess(a, b) == a[1] < b[1] \/ (a[1] = b[1] /\ a[2] < b[2])

\* df["amount_lkr"].sum()
Total(df) == SumSeq([i \in DOMAIN df |-> df[i].amount_lkr])

\* df_exp.assign(delta=-df_exp["amount_lkr"]), with the sign lost
PlusDelta(r) == [date |-> r.date, delta |-> r.amount_lkr]

\* df_inc.assign(delta=df_inc["amount_lkr"])
IncomeDelta(r) == [date |-> r.date, delta |-> r.amount_lkr]

\* df_exp.assign(delta=-df_exp["amount_lkr"])
ExpenseDelta(r) == [date |-> r.date, delta |-> 0 - r.amount_lkr]

\* pd.concat([...income..., ...expense...])
Concat(df_inc, df_exp) ==
  [i \in DOMAIN df_inc |-> IncomeDelta(df_inc[i])]
    \o [i \in DOMAIN df_exp |-> ExpenseDelta(df_exp[i])]

\* .sort_values("date", kind="stable"): x goes behind every row that is
\* not later than it
RECURSIVE InsertSorted(_, _)
InsertSorted(x, q) ==
  IF q = <<>> THEN <<x>>
  ELSE IF TsLess(x.date, q[Len(q)].date)
       THEN Append(InsertSorted(x, SubSeq(q, 1, Len(q) - 1)), q[Len(q)])
       ELSE Append(q, x)

RECURSIVE StableSort(_)
StableSort(q) ==
  IF q = <<>> THEN <<>>
  ELSE InsertSorted(q[Len(q)], StableSort(SubSeq(q, 1, Len(q) - 1)))

\* ledger["delta"].cumsum()
RECURSIVE Cumsum(_)
Cumsum(q) ==
  IF q = <<>> THEN <<>>
  ELSE LET front == Cumsum(SubSeq(q, 1, Len(q) - 1))
       IN Append(front, (IF front = <<>> THEN 0 ELSE front[Len(front)])
                          + q[Len(q)].delta)

\* df_exp.groupby("category")["amount_lkr"].sum(): a Series, label -> value
GroupSum(df) ==
  [c \in {df[i].category : i \in DOMAIN df} |->
     SumSeq([i \in DOMAIN df |->
               IF df[i].category = c THEN df[i].amount_lkr ELSE 0])]

Other == <<"Other">>

\* series.loc[label] = v: the entry is overwritten, or added
SetLoc(series, label, v) ==
  [k \in DOMAIN series \cup {label} |-> IF k = label THEN v ELSE series[k]]

\* the expense-breakdown donut: slices below 5 % of the total go to "Other"
Donut(df_exp) ==
  LET cat_tot   == GroupSum(df_exp)
      total     == SumFun(cat_tot, DOMAIN cat_tot)
      small     == {c \in DOMAIN cat_tot : TailDivisor * cat_tot[c] < total}
      small_sum == SumFun(cat_tot, small)
      kept      == [c \in DOMAIN cat_tot \ small |-> cat_tot[c]]
  IN IF small_sum > 0 THEN SetLoc(kept, Other, small_sum) ELSE kept

\* the Dashboard page: every table is read through the cache
Dashboard ==
  LET df_inc == Load(cache, "income", income)
      df_exp == Load(cache, "expense", expense)
      ledger == StableSort(Concat(df_inc, df_exp))
  IN /\ dash' = [on |-> TRUE,
                 tot_inc |-> Total(df_inc),
                 tot_exp |-> Total(df_exp),
                 bal |-> Total(df_inc) - Total(df_exp),
                 has_ledger |-> (df_inc # <<>> \/ df_exp # <<>>),
                 balance |-> Cumsum(ledger),
                 has_donut |-> df_exp # <<>>,
                 donut |-> IF df_exp # <<>> THEN Donut(df_exp) ELSE <<>>]
     /\ cache' = Fill(Fill(Fill(Fill(cache, "income", income),
                                "expense", expense),
                           "budget", budget),
                      "pending_income", pending_income)
     /\ UNCHANGED <<store, session, ghost, quick>>

\* ------------------------------------------------------------ quick add
\* The values of the extracted JSON object.  k is the JSON type ("absent"
\* for a missing key or null).  A string is described by what the code asks
\* of it: its length, whether int() reads its first four characters and as
\* which year, whether fromisoformat reads it and as which day or minute,
\* whether float() reads it and as which number, and its words.
Absent == [k |-> "absent"]
Num(v) == [k |-> "num", v |-> v]
Str(len) ==
  [k |-> "str", len |-> len, year_ok |-> FALSE, year |-> 0,
   iso_ok |-> FALSE, day |-> 0, minute |-> 0,
   float_ok |-> FALSE, v |-> 0, words |-> <<>>]

EmptyStr   == Str(0)
DateStr(year, day) ==
  [Str(10) EXCEPT !.year_ok = TRUE, !.year = year, !.iso_ok = TRUE, !.day = day]
TimeStr(minute) == [Str(5) EXCEPT !.iso_ok = TRUE, !.minute = minute]
WordStr(w)      == [Str(Len(w)) EXCEPT !.words = w]

TodayStr     == DateStr(ThisYear, Today)          \* date.today().isoformat()
LastYearStr  == DateStr(ThisYear - 1, Today - 1)  \* "2021-01-01"
YesterdayStr == Str(9)                            \* "yesterday"
SlashDateStr == Str(10)                           \* "02/11/20xx"
NoonStr      == TimeStr(Noon)                     \* "12:00"
ThreePmStr   == Str(4)                            \* "3 pm"
CommaAmtStr  == Str(6)                            \* "75,000"
OtherStr     == WordStr(Other)                    \* "Other"

\* Python truth value of a JSON value
Falsy(x) ==
  \/ x.k = "absent"
  \/ x.k = "str" /\ x.len = 0
  \/ x.k = "num" /\ x.v = 0

\* x or d
OrElse(x, d) == IF Falsy(x) THEN d ELSE x

\* str.title() on the words the model uses
TitleWord(w) ==
  CASE w = "ring"  -> "Ring"
    [] w = "other" -> "Other"
    [] w = "gift"  -> "Gift"
    [] OTHER       -> w

Title(t) == [i \in DOMAIN t |-> TitleWord(t[i])]

\* lines 200-206: the text of the date; raised when int(dt_txt[:4]) raises
DateText(data) ==
  LET dt0 == OrElse(data.date, EmptyStr)
      bad == dt0.len = 10 /\ ~dt0.year_ok
      dt1 == IF dt0.len = 10 /\ dt0.year_ok /\ dt0.year < ThisYear
             THEN EmptyStr ELSE dt0
  IN [raised |-> bad, txt |-> IF Falsy(dt1) THEN TodayStr ELSE dt1]

\* lines 198-218, "clean / validate": the record to insert, or raised
Normalize(data) ==
  LET dt  == DateText(data)
      tm  == OrElse(data.time, NoonStr)
      a   == OrElse(data.amount_lkr, Num(0))
      bad == \/ dt.raised
             \/ ~dt.txt.iso_ok \/ ~tm.iso_ok            \* fromisoformat
             \/ a.k = "str" /\ ~a.float_ok              \* float
  IN [raised |-> bad,
      ts  |-> <<dt.txt.day, tm.minute>>,
      amt |-> a.v,
      cat |-> Title(OrElse(data.category, OtherStr).words),
      src |-> Title(OrElse(data.source, OtherStr).words)]

\* st.session_state.qa_parsed = None
NoParse == [has |-> FALSE]

\* "Parse": nlp_extract(raw) is kept in the session state
QuickParse(data) ==
  /\ qa_parsed' = [has |-> TRUE, data |-> data]
  /\ qa_result' = "none"
  /\ dash' = NoDash
  /\ UNCHANGED <<store, cache, session, ghost>>

\* "Save to database": an exception ends the run of the script before the
\* insert; otherwise one row is written
QuickSave(target) ==
  /\ qa_parsed.has
  /\ target = "income" => Len(income) < MaxIncome
  /\ target = "expense" => Len(expense) < MaxExpense
  /\ LET rec == Normalize(qa_parsed.data) IN
       IF rec.raised
       THEN /\ qa_result' = "error"
            /\ UNCHANGED <<income, expense, cache, qa_parsed>>
       ELSE /\ IF target = "income"
               THEN /\ income' = Append(income,
                           [id |-> Len(income) + 1, date |-> rec.ts,
                            amount_lkr |-> rec.amt, source |-> rec.src])
                    /\ UNCHANGED expense
               ELSE /\ expense' = Append(expense,
                           [id |-> Len(expense) + 1, date |-> rec.ts,
                            amount_lkr |-> rec.amt, category |-> rec.cat])
                    /\ UNCHANGED income
            /\ cache' = CacheClear
            /\ qa_parsed' = NoParse
            /\ qa_result' = "saved"
  /\ dash' = NoDash
  /\ UNCHANGED <<pending_income, budget, session, ghost>>

\* -------------------------------------------------------------- manage
\* update {tbl} set amount_lkr=:a ... where id=:i, for the rows of diff
Updated(tbl, df, edit) ==
  [i \in DOMAIN tbl |->
     IF \E j \in DOMAIN df : df[j].id = tbl[i].id /\ edit[j] # df[j].amount_lkr
     THEN [tbl[i] EXCEPT !.amount_lkr =
             edit[CHOOSE j \in DOMAIN df : df[j].id = tbl[i].id]]
     ELSE tbl[i]]

\* "Save changes" on the income or the expense table; edit gives the
\* amount the data editor shows in each row of df
ManageSave(tbl, edit) ==
  /\ tbl \in {"income", "expense"}
  /\ LET df == Load(cache, tbl, IF tbl = "income" THEN income ELSE expense) IN
       /\ DOMAIN edit = DOMAIN df
       /\ IF tbl = "income"
          THEN income' = Updated(income, df, edit) /\ UNCHANGED expense
          ELSE expense' = Updated(expense, df, edit) /\ UNCHANGED income
  /\ cache' = CacheClear
  /\ dash' = NoDash
  /\ UNCHANGED <<pending_income, budget, session, ghost, quick>>

\* ---------------------------------------------------------------- init
Init ==
  /\ income = <<>>
  /\ expense = <<>>
  /\ pending_income = <<>>
  /\ budget = <<>>
  /\ cache = NoCache
  /\ pc = [s \in Sessions |-> "idle"]
  /\ p_df = [s \in Sessions |-> <<>>]
  /\ chosen = [s \in Sessions |-> <<>>]
  /\ pos = [s \in Sessions |-> 1]
  /\ fault = [s \in Sessions |-> <<>>]
  /\ inserted = [s \in Sessions |-> {}]
  /\ updated = [s \in Sessions |-> {}]
  /\ failed = [s \in Sessions |-> {}]
  /\ reported = [s \in Sessions |-> 0]
  /\ moved = [p \in 1..MaxPending |-> 0]
  /\ last_save = <<>>
  /\ qa_parsed = NoParse
  /\ qa_result = "none"
  /\ dash = NoDash

\* ------------------------------------------- the Pending page, two sessions
NextPending ==
  \/ \E s \in Sessions : \E a \in 0..1 : AddPending(s, a, <<"Gift">>)
  \/ \E s \in Sessions :
       \E sel \in Selections(1..MaxPending) :
         \E flt \in [Range(sel) -> Faults] : MoveStart(s, sel, flt)
  \/ \E s \in Sessions : MoveInsert(s, <<Today, Noon>>)
  \/ \E s \in Sessions : MoveUpdate(s)
  \/ \E s \in Sessions : MoveReport(s)
  \/ CacheExpire("pending_income")

SpecPending == Init /\ [][NextPending]_vars

\* ------------------------------------------ the Pending page, one session
NextBatch ==
  \/ \E a \in 0..1 : AddPending("s1", a, <<"Gift">>)
  \/ \E sel \in Selections(1..MaxPending) :
       \E flt \in [Range(sel) -> Faults] : MoveStart("s1", sel, flt)
  \/ MoveInsert("s1", <<Today, Noon>>)
  \/ MoveUpdate("s1")
  \/ MoveReport("s1")
  \/ CacheExpire("pending_income")

SpecBatch == Init /\ [][NextBatch]_vars

\* ------------------------------------------------------ the Budgets page
BudgetTexts == {<<>>, <<" ">>, <<"Venue">>, <<" ", "Venue">>, <<"Ring">>,
                <<"Ring", " ">>, <<"Suit">>}

NextBudget ==
  \/ \E c \in BudgetTexts : \E l \in 0..MaxLimit : BudgetSave(c, l)
  \/ CacheExpire("budget")

SpecBudget == Init /\ [][NextBudget]_vars

\* ---------------------------------------- the forms and the ledger chart
NextLedger ==
  \/ \E d \in Days : \E a \in 0..2 : AddIncome(<<d, Noon>>, a, <<"Gift">>)
  \/ \E d \in Days : \E a \in 0..2 : AddExpense(<<d, Noon>>, a, <<"Ring">>)
  \/ Dashboard
  \/ \E t \in {"income", "expense"} : CacheExpire(t)

SpecLedger == Init /\ [][NextLedger]_vars

\* ------------------------------------------- the forms and the donut chart
NextDonut ==
  \/ \E a \in {0, 1, 30} :
       \E c \in {<<>>, <<"Ring">>, <<"Venue", " ">>, <<"Other">>} :
         AddExpense(<<Today, Noon>>, a, c)
  \/ Dashboard
  \/ CacheExpire("expense")

SpecDonut == Init /\ [][NextDonut]_vars

\* ------------------------------------------------------ the Quick Add page
Extractions ==
  [date       : {Absent, EmptyStr, TodayStr, LastYearStr, YesterdayStr,
                 SlashDateStr},
   time       : {Absent, ThreePmStr},
   amount_lkr : {Absent, Num(5), CommaAmtStr},
   category   : {Absent, WordStr(<<"ring">>)},
   source     : {Absent}]

NextQuick ==
  \/ \E data \in Extractions : QuickParse(data)
  \/ \E target \in {"expense", "income"} : QuickSave(target)

SpecQuick == Init /\ [][NextQuick]_vars

\* ----------------------------------------------- every page that writes amounts
AmountOnly ==
  [date : {Absent}, time : {Absent}, amount_lkr : {Absent, Num(5)},
   category : {Absent}, source : {Absent}]

NextWrites ==
  \/ \E a \in 0..1 : AddIncome(<<Today, Noon>>, a, <<"Gift">>)
  \/ \E a \in 0..1 : AddExpense(<<Today, Noon>>, a, <<"Ring">>)
  \/ \E a \in 0..1 : AddPending("s1", a, <<"Gift">>)
  \/ \E data \in AmountOnly : QuickParse(data)
  \/ \E target \in {"expense", "income"} : QuickSave(target)
  \/ \E tbl \in {"income", "expense"} :
       \E edit \in UNION {[1..n -> 0..1] : n \in 0..(MaxIncome + MaxExpense)} :
         ManageSave(tbl, edit)

SpecWrites == Init /\ [][NextWrites]_vars

\* ================================================================ claims
Table(t) ==
  CASE t = "income"         -> income
    [] t = "expense"        -> expense
    [] t = "pending_income" -> pending_income
    [] t = "budget"         -> budget

Quiet == \A s \in Sessions : pc[s] \in {"idle", "done"}

IsCleared(pid) ==
  \E i \in DOMAIN pending_income :
    pending_income[i].id = pid /\ pending_income[i].cleared

\* C1: at most one income record is ever created from a pending record,
\* however often and from however many sessions "Move to Income" runs.
C1_OneIncomePerPending == \A p \in DOMAIN moved : moved[p] <= 1

\* C2: once the attempt for a selected id has ended, its two writes have
\* both taken effect or neither has: the income row was inserted by the
\* batch exactly if the batch set cleared.
C2_WritesAreAUnit ==
  \A s \in Sessions : \A i \in DOMAIN chosen[s] :
    i < pos[s] =>
      ((chosen[s][i] \in inserted[s]) <=> (chosen[s][i] \in updated[s]))

\* C3: when a batch is over, every selected id whose own two writes the
\* store did not fail has its income row inserted and is cleared, wherever
\* in the selection the failing ids stand.
C3_FailureDoesNotStopBatch ==
  \A s \in Sessions :
    pc[s] = "done" =>
      \A pid \in Range(chosen[s]) :
        fault[s][pid] = "none" =>
          /\ pid \in inserted[s]
          /\ pid \in updated[s]
          /\ moved[pid] >= 1
          /\ IsCleared(pid)

\* C3 witness: a finished batch whose first id failed and whose second id
\* was reconciled.
C3_Witness ==
  \E s \in Sessions :
    /\ pc[s] = "done"
    /\ Len(chosen[s]) >= 2
    /\ fault[s][chosen[s][1]] # "none"
    /\ fault[s][chosen[s][2]] = "none"
    /\ chosen[s][2] \in updated[s]
    /\ IsCleared(chosen[s][2])

\* C4: the count in the success message of a batch is the number of
\* selected ids the batch reconciled (income inserted and cleared set).
C4_CountIsReconciled ==
  \A s \in Sessions :
    pc[s] = "done" => reported[s] = Cardinality(inserted[s] \cap updated[s])

\* C5: every persisted income, expense and pending-income row has an
\* amount strictly greater than zero.
C5_AmountsPositive ==
  /\ \A i \in DOMAIN income : income[i].amount_lkr > 0
  /\ \A i \in DOMAIN expense : expense[i].amount_lkr > 0
  /\ \A i \in DOMAIN pending_income : pending_income[i].amount_lkr > 0

\* C6: whenever the Dashboard draws the ledger, the last value of the
\* running balance equals the Balance metric (total income minus total
\* expense) computed from the same snapshots.
C6_FinalBalanceIsBalance ==
  (dash.on /\ dash.has_ledger) =>
    dash.balance[Len(dash.balance)] = dash.bal

\* C6 witness: a ledger of at least three rows with income and expense in
\* it, whose running balance passes through a value that is not the final
\* one.
C6_Witness ==
  /\ dash.on /\ dash.has_ledger
  /\ Len(dash.balance) >= 3
  /\ dash.tot_inc > 0 /\ dash.tot_exp > 0
  /\ dash.balance[1] < 0
  /\ dash.balance[Len(dash.balance)] = dash.bal

\* C7: the budget table holds exactly one entry for every category ever
\* saved and no other entry, and the limit of that entry is the limit of
\* the most recent save for that category.
C7_BudgetUpsert ==
  /\ \A c \in DOMAIN last_save :
       /\ Cardinality({i \in DOMAIN budget : budget[i].category = c}) = 1
       /\ \A i \in DOMAIN budget :
            budget[i].category = c => budget[i].limit_lkr = last_save[c]
  /\ \A i \in DOMAIN budget : budget[i].category \in DOMAIN last_save

\* C7 witness: an entry was saved again with another limit after the
\* cached snapshot was taken, next to an entry the save left alone.
C7_Witness ==
  /\ cache["budget"].hit
  /\ Len(budget) >= 2
  /\ \E i \in DOMAIN budget : \E j \in DOMAIN cache["budget"].df :
       /\ cache["budget"].df[j].category = budget[i].category
       /\ cache["budget"].df[j].limit_lkr # budget[i].limit_lkr
  /\ \E i \in DOMAIN budget : \E j \in DOMAIN cache["budget"].df :
       cache["budget"].df[j] = budget[i]

\* C8: "Save to database" never ends in an error, whatever the extraction
\* result.
C8_SaveNeverErrors == qa_result # "error"

\* C9: the values of the donut's buckets after small-slice merging sum to
\* the total expense.
C9_DonutSumsToTotal ==
  dash.has_donut => SumFun(dash.donut, DOMAIN dash.donut) = dash.tot_exp

\* C10: once every handler has completed, load_table returns the current
\* contents of each table, never those from before a completed write.
C10_NoStaleRead ==
  Quiet => \A t \in Tables : Load(cache, t, Table(t)) = Table(t)
====
